---- MODULE Spec2Model ----
(***************************************************************************)
(* PitchPrice hotel rate scraper (src/scraper/scraper.py).                 *)
(*                                                                         *)
(* Python values are modelled as follows.                                  *)
(*   - An optional value is a sequence: None is << >>, the value v is      *)
(*     <<v>>.                                                              *)
(*   - A Python str is a sequence of text fragments; concatenation and     *)
(*     f-string formatting are \o.  `x in s.lower()` holds when a         *)
(*     fragment of s, lower-cased, contains x (FragmentContains).          *)
(*   - An exception is a record [type, msg]: the class name and str(e).    *)
(*   - A card text is the record of what the code reads in it: the words   *)
(*     it shows, the phrases it shows, and the amounts that                *)
(*     re.findall(r'(?:CA\$|CAD|C\$)\s*([\d,]+)') yields, in text order,   *)
(*     as integers: every amount of the model has a digit, so that int()   *)
(*     of it is defined.                                                   *)
(*   - A date is a day number; nights = check_out - check_in.              *)
(***************************************************************************)
EXTENDS Integers, Sequences, FiniteSets, TLC

(***************************************************************************)
(* Bounds of the model.                                                    *)
(***************************************************************************)
MaxPrices == 3      \* amounts shown by one card of an extraction input
MaxCards == 2       \* cards of a multi-card extraction input
MaxNights == 3      \* largest num_nights of an extraction input
MaxRetriesArg == 3  \* largest max_retries argument of a stand-alone fetch
MaxBatches == 3     \* hotels of the configuration of a run, all cities together
MaxDates == 2       \* dates of one city of the configuration of a run
MaxRequests == 2    \* (hotel, date) pairs of the configuration of a run

None == << >>
Some(v) == <<v>>

Min2(a, b) == IF a <= b THEN a ELSE b

(***************************************************************************)
(* Strings.                                                                *)
(***************************************************************************)
\* str.lower() on the fragments and words of the model.
Lower(s) ==
    CASE s = "Target closed" -> "target closed"
      [] s = "Connection closed" -> "connection closed"
      [] s = "Target page, context or browser has been closed"
            -> "target page, context or browser has been closed"
      [] s = "No availability" -> "no availability"
      [] s = "Sold out" -> "sold out"
      [] s = "This property is unavailable" -> "this property is unavailable"
      [] s = "Fairmont" -> "fairmont"
      [] s = "Royal" -> "royal"
      [] s = "York" -> "york"
      [] s = "Drake" -> "drake"
      [] s = "Hotel" -> "hotel"
      [] s = "The" -> "the"
      [] s = "HOTEL" -> "hotel"
      [] s = "Inn" -> "inn"
      [] OTHER -> s

\* len(w) of the words hotel names are made of.
WordLen(w) ==
    CASE w = "Fairmont" -> 8
      [] w = "Royal" -> 5
      [] w = "York" -> 4
      [] w = "Drake" -> 5
      [] w = "Hotel" -> 5
      [] w = "HOTEL" -> 5
      [] w = "The" -> 3
      [] w = "Inn" -> 3
      [] OTHER -> 4

\* str(n) inside an f-string.
NumStr(n) == ToString(n)

\* `phrase in fragment` for lower-cased fragments: the fragments of the model
\* contain a phrase by being it, or as listed.
FragmentContains(fragment, phrase) ==
    \/ fragment = phrase
    \/ <<fragment, phrase>> \in
          { <<"this property is unavailable", "unavailable">>,
            <<"target page, context or browser has been closed",
              "browser has been closed">> }

\* `phrase in text.lower()` for a str given as fragments.
StrContains(str, phrase) ==
    \E k \in DOMAIN str : FragmentContains(Lower(str[k]), phrase)

\* `phrase in text.lower()` for a text given as the set of its fragments.
TextContains(fragments, phrase) ==
    \E f \in fragments : FragmentContains(Lower(f), phrase)

(***************************************************************************)
(* Exceptions.                                                             *)
(***************************************************************************)
NoError == [type |-> "", msg |-> << >>]
PlaywrightTimeout == "TimeoutError"
IsPlaywrightTimeout(e) == e.type = PlaywrightTimeout

corruption_indicators ==
    { "'dict' object has no attribute '_object'",
      "object has been collected",
      "target page, context or browser has been closed",
      "browser has been closed",
      "context has been closed",
      "page has been closed",
      "connection closed",
      "target closed" }

is_browser_corruption_error(error) ==
    \E indicator \in corruption_indicators : StrContains(error.msg, indicator)

(***************************************************************************)
(* extract_rate_from_booking: the rate of one matched card.                *)
(***************************************************************************)
RECURSIVE InsertSorted(_, _)
InsertSorted(s, x) ==
    IF s = << >> THEN <<x>>
    ELSE IF x <= Head(s) THEN <<x>> \o s
    ELSE <<Head(s)>> \o InsertSorted(Tail(s), x)

RECURSIVE sorted(_)
sorted(s) == IF s = << >> THEN << >> ELSE InsertSorted(sorted(Tail(s)), Head(s))

RECURSIVE min(_)
min(s) == IF Len(s) = 1 THEN s[1] ELSE Min2(s[1], min(Tail(s)))

\* Counter(prices_int)[p]
price_counts(prices_int, p) ==
    Cardinality({i \in DOMAIN prices_int : prices_int[i] = p})

\* Variant: the lower of the two middle amounts.
middle_of_sorted_lower(prices) == sorted(prices)[((Len(prices) - 1) \div 2) + 1]

\* sorted_prices[len(sorted_prices) // 2], 0-based in the source
middle_of_sorted(prices) == sorted(prices)[(Len(prices) \div 2) + 1]

\* Variant: the smallest amount of the window when none recurs.
disambiguate_lowest(window_prices, prices_int) ==
    LET repeated == SelectSeq(window_prices,
                              LAMBDA p : price_counts(prices_int, p) > 1)
    IN  IF repeated # << >> THEN min(repeated) ELSE min(window_prices)

\* lines 362-369 and 379-386: the rate among the amounts of the primary window
disambiguate(window_prices, prices_int) ==
    LET repeated == SelectSeq(window_prices,
                              LAMBDA p : price_counts(prices_int, p) > 1)
    IN  IF repeated # << >> THEN min(repeated)
        ELSE middle_of_sorted(window_prices)

\* line 360
single_night_prices(prices_int) ==
    SelectSeq(prices_int, LAMBDA p : 150 <= p /\ p <= 2500)

\* lines 374-376
total_prices(prices_int, num_nights) ==
    SelectSeq(prices_int,
              LAMBDA p : 300 * num_nights <= p /\ p <= 3000 * num_nights)

\* Variant: the floor of the fallback tier not scaled by the nights.
reasonable_unscaled(prices_int, num_nights) ==
    SelectSeq(prices_int, LAMBDA p : p >= 400)

\* line 390
reasonable(prices_int, num_nights) ==
    SelectSeq(prices_int, LAMBDA p : p >= 400 * num_nights)

\* Variant: the fallback tier disambiguated like the primary window.
fallback_rate_disambiguated(reasonable_prices, prices_int) ==
    disambiguate(reasonable_prices, prices_int)

\* lines 392-393: the rate of the fallback tier
fallback_rate(reasonable_prices, prices_int) == min(reasonable_prices)

\* lines 349-393: rate and status a matched, not sold out card yields
card_rate(prices_int, num_nights) ==
    LET untouched == [rate |-> None, availability_status |-> "unknown"]
        found(r) == [rate |-> Some(r), availability_status |-> "available"]
    IN  IF prices_int = << >> THEN untouched
        ELSE IF num_nights = 1
        THEN IF single_night_prices(prices_int) # << >>
             THEN found(disambiguate(single_night_prices(prices_int), prices_int))
             ELSE untouched
        ELSE IF total_prices(prices_int, num_nights) # << >>
             THEN found(disambiguate(total_prices(prices_int, num_nights),
                                     prices_int))
             ELSE IF reasonable(prices_int, num_nights) # << >>
                  THEN found(fallback_rate(reasonable(prices_int, num_nights),
                                           prices_int))
                  ELSE untouched

(***************************************************************************)
(* extract_rate_from_booking: the page.                                    *)
(*   page  = [locator_err, cards, body_err, body]                          *)
(*   card  = [err, words, phrases, prices]                                 *)
(* locator_err is what page.locator(...).all() raises, card.err what       *)
(* card.inner_text() raises, body_err what page.inner_text("body") raises  *)
(* (NoError: nothing).  dismiss_cookie_popup swallows every exception and   *)
(* changes no result, so it has no part in the model.                      *)
(***************************************************************************)
CardsScanned == 15

\* Variant: every word longer than 3 characters is a key word.
key_words_untruncated(hotel_name) ==
    LET long == SelectSeq(hotel_name, LAMBDA w : WordLen(w) > 3)
    IN  [k \in DOMAIN long |-> Lower(long[k])]

\* line 325
key_words(hotel_name) ==
    LET long == SelectSeq(hotel_name, LAMBDA w : WordLen(w) > 3)
        lowered == [k \in DOMAIN long |-> Lower(long[k])]
    IN  SubSeq(lowered, 1, Min2(3, Len(lowered)))

\* line 333
matches(card, hotel_name) ==
    Cardinality({k \in DOMAIN key_words(hotel_name) :
                    TextContains(card.words, key_words(hotel_name)[k])})

\* lines 338-342
is_sold_out(card) ==
    \/ TextContains(card.phrases, "no availability")
    \/ TextContains(card.phrases, "unavailable")
    \/ TextContains(card.phrases, "this property is unavailable")

\* lines 327-398: the loop over property_cards[:15], from card i on
RECURSIVE scan_cards(_, _, _, _)
scan_cards(cards, i, hotel_name, num_nights) ==
    IF i > Min2(Len(cards), CardsScanned)
    THEN [rate |-> None, availability_status |-> "unknown"]
    ELSE IF cards[i].err # NoError
    THEN scan_cards(cards, i + 1, hotel_name, num_nights)
    ELSE IF matches(cards[i], hotel_name) < 2
    THEN scan_cards(cards, i + 1, hotel_name, num_nights)
    ELSE IF is_sold_out(cards[i])
    THEN [rate |-> None, availability_status |-> "sold_out"]
    ELSE card_rate(cards[i].prices, num_nights)

\* lines 411-424: the two handlers of the function's try
extraction_failed(e) ==
    IF IsPlaywrightTimeout(e)
    THEN [rate |-> None, availability_status |-> "error",
          error |-> <<"Page load timeout">>,
          diagnostics |-> Some("extraction_timeout")]
    ELSE [rate |-> None, availability_status |-> "error",
          error |-> <<e.type, ": ">> \o e.msg,
          diagnostics |-> Some("extraction_error")]

\* lines 400-409
page_wide(page) ==
    IF page.body_err # NoError THEN extraction_failed(page.body_err)
    ELSE IF \/ TextContains(page.body, "no availability")
            \/ TextContains(page.body, "sold out")
    THEN [rate |-> None, availability_status |-> "sold_out",
          error |-> None, diagnostics |-> None]
    ELSE [rate |-> None, availability_status |-> "not_found",
          error |-> <<"Hotel not found in results">>, diagnostics |-> None]

\* lines 293-426
extract_rate_from_booking(page, hotel_name, num_nights) ==
    IF page.locator_err # NoError THEN extraction_failed(page.locator_err)
    ELSE LET r == scan_cards(page.cards, 1, hotel_name, num_nights)
         IN  IF r.rate = None /\ r.availability_status # "sold_out"
             THEN page_wide(page)
             ELSE [rate |-> r.rate,
                   availability_status |-> r.availability_status,
                   error |-> None, diagnostics |-> None]

(***************************************************************************)
(* State.  x: the inputs and result of one stand-alone call of             *)
(* extract_rate_from_booking.  f: the frame of the running                 *)
(* fetch_booking_rate call.                                                *)
(***************************************************************************)
VARIABLES x, f

(***************************************************************************)
(* State of a run.  s: the frame of the running scrape_hotel_rate call,    *)
(* with the locals of calculate_rate_from_multi_night.  The others are the *)
(* locals of run_scraper: pc is its position, cfg the cities of the        *)
(* configuration, settings its scrape_settings, city_i, hotel_i and date_i *)
(* the positions of its three loops, browser and context the handles it    *)
(* holds (each launch and each new context has a fresh number).            *)
(***************************************************************************)
VARIABLES s, pc, cfg, settings, city_i, hotel_i, date_i, request_count,
          corruption_retry, browser, context, all_results, errors

run_vars == <<s, pc, cfg, settings, city_i, hotel_i, date_i, request_count,
              corruption_retry, browser, context, all_results, errors>>
vars == <<x, f, run_vars>>

(***************************************************************************)
(* fetch_booking_rate.                                                     *)
(* What the browser does in one attempt is the record                      *)
(*   [goto_err, wait_err, page]:                                           *)
(* what page.goto raises, what page.wait_for_load_state raises, and the    *)
(* page the extraction then reads.                                         *)
(***************************************************************************)
DefaultMaxRetries == 3

BrowserCorruptionError(e) ==
    [type |-> "BrowserCorruptionError",
     msg |-> <<"Browser corrupted: ", e.type, ": ">> \o e.msg]

\* type(last_error).__name__ and str(last_error), last_error possibly None
TypeName(e) == IF e = NoError THEN "NoneType" ELSE e.type
StrOf(e) == IF e = NoError THEN <<"None">> ELSE e.msg

FrameIdle ==
    [state |-> "idle", check_in |-> 0, check_out |-> 0, max_retries |-> 0,
     attempt |-> 0, last_error |-> NoError, result |-> None, exc |-> NoError,
     sleeps |-> << >>,
     last |-> [sig |-> {}, caught |-> NoError, status |-> ""]]

\* lines 436-443: the frame on entry
fetch_enter(check_in, check_out, max_retries) ==
    [FrameIdle EXCEPT !.state = "running", !.check_in = check_in,
                      !.check_out = check_out, !.max_retries = max_retries]

\* line 441
num_nights(fr) == fr.check_out - fr.check_in

\* Variant: the loop bound taken one too far.
more_attempts_inclusive(fr) == fr.attempt <= fr.max_retries

\* line 445: range(1, max_retries + 1) has another attempt to give
more_attempts(fr) == fr.attempt < fr.max_retries

\* line 465: the result is returned as it is
is_successful_extraction(result) ==
    \/ result.rate # None
    \/ result.availability_status \in {"sold_out", "not_found"}

\* lines 446-474: the try block of one attempt; it returns or raises
fetch_try(o, hotel_name, nights) ==
    IF o.goto_err # NoError THEN [raise |-> o.goto_err, result |-> None]
    ELSE IF o.wait_err # NoError THEN [raise |-> o.wait_err, result |-> None]
    ELSE LET result == extract_rate_from_booking(o.page, hotel_name, nights)
         IN  IF is_successful_extraction(result)
             THEN [raise |-> NoError, result |-> Some(result)]
             ELSE IF result.availability_status = "error"
             THEN [raise |-> [type |-> "Exception", msg |-> result.error],
                   result |-> None]
             ELSE [raise |-> NoError, result |-> Some(result)]

\* Variant: the same pause after every attempt.
backoff_constant(fr) ==
    IF fr.attempt < fr.max_retries
    THEN [fr EXCEPT !.sleeps = Append(@, 2)]
    ELSE fr

\* lines 479-482 and 492-495
backoff(fr) ==
    IF fr.attempt < fr.max_retries
    THEN [fr EXCEPT !.sleeps = Append(@, 2 * fr.attempt)]
    ELSE fr

\* Variant: the timeout handler does not keep the exception.
except_timeout_forgetful(fr, e) == backoff(fr)

\* lines 476-482: except PlaywrightTimeout
except_timeout(fr, e) == backoff([fr EXCEPT !.last_error = e])

\* lines 483-495: except Exception
except_exception(fr, e) ==
    IF is_browser_corruption_error(e)
    THEN [fr EXCEPT !.last_error = e, !.state = "raised",
                    !.exc = BrowserCorruptionError(e)]
    ELSE backoff([fr EXCEPT !.last_error = e])

\* lines 476-495: the handler that takes exception e
fetch_except(fr, e) ==
    IF IsPlaywrightTimeout(e) THEN except_timeout(fr, e)
    ELSE except_exception(fr, e)

\* lines 497-503
fetch_exhausted(fr) ==
    [rate |-> None, availability_status |-> "error",
     error |-> <<"Failed after ", NumStr(fr.max_retries), " attempts: ",
                 TypeName(fr.last_error), ": ">> \o StrOf(fr.last_error),
     diagnostics |-> None]

\* The index of the card the scan stops at (0: none), lines 327-395.
RECURSIVE accepted_card(_, _, _)
accepted_card(cards, i, hotel_name) ==
    IF i > Min2(Len(cards), CardsScanned) THEN 0
    ELSE IF cards[i].err = NoError /\ matches(cards[i], hotel_name) >= 2
    THEN i
    ELSE accepted_card(cards, i + 1, hotel_name)

\* lines 263-278: the exceptions capture_page_diagnostics meets and swallows
\* when a handler of extract_rate_from_booking calls it (lines 412, 419):
\* it reads page.inner_text("body").
diagnostics_failures(page) ==
    IF page.body_err # NoError
    THEN {[site |-> "body", err |-> page.body_err]}
    ELSE {}

\* The exceptions one attempt meets, swallowed ones included, and where.
attempt_failures(o, hotel_name, nights) ==
    IF o.goto_err # NoError THEN {[site |-> "goto", err |-> o.goto_err]}
    ELSE IF o.wait_err # NoError THEN {[site |-> "wait", err |-> o.wait_err]}
    ELSE IF o.page.locator_err # NoError
    THEN {[site |-> "locator", err |-> o.page.locator_err]}
         \cup diagnostics_failures(o.page)
    ELSE LET a == accepted_card(o.page.cards, 1, hotel_name)
             read == IF a = 0 THEN Min2(Len(o.page.cards), CardsScanned) ELSE a
             r == scan_cards(o.page.cards, 1, hotel_name, nights)
         IN  {[site |-> "card", err |-> o.page.cards[i].err] :
                 i \in {j \in 1..read : o.page.cards[j].err # NoError}}
             \cup
             (IF /\ r.rate = None /\ r.availability_status # "sold_out"
                 /\ o.page.body_err # NoError
              THEN {[site |-> "body", err |-> o.page.body_err]}
              ELSE {})

\* What the attempt just made met: the failures carrying a corruption
\* signature (where, and of which class), the exception its handlers took
\* (NoError: none) and the status of the result it returned ("": none).
attempt_record(o, hotel_name, nights) ==
    LET fails == attempt_failures(o, hotel_name, nights)
        t == fetch_try(o, hotel_name, nights)
    IN  [sig |-> {[site |-> y.site, type |-> y.err.type] :
                     y \in {z \in fails : is_browser_corruption_error(z.err)}},
         caught |-> t.raise,
         status |-> IF t.result = None THEN ""
                    ELSE t.result[1].availability_status]

\* One iteration of the loop of line 445.
FetchAttempt(o, hotel_name) ==
    /\ f.state = "running"
    /\ more_attempts(f)
    /\ LET fr == [f EXCEPT !.attempt = @ + 1,
                           !.last = attempt_record(o, hotel_name, num_nights(f))]
           t == fetch_try(o, hotel_name, num_nights(f))
       IN  f' = IF t.raise # NoError THEN fetch_except(fr, t.raise)
                ELSE [fr EXCEPT !.state = "returned", !.result = t.result]
    /\ UNCHANGED <<x, run_vars>>

\* The loop is over: lines 497-503.
FetchExhausted ==
    /\ f.state = "running"
    /\ ~more_attempts(f)
    /\ f' = [f EXCEPT !.state = "returned", !.result = Some(fetch_exhausted(f))]
    /\ UNCHANGED <<x, run_vars>>

(***************************************************************************)
(* The browser: the errors it raises and the pages it shows.               *)
(***************************************************************************)
ErrTimeout == [type |-> PlaywrightTimeout, msg |-> <<"Timeout 30000ms exceeded.">>]
ErrNetwork == [type |-> "Error", msg |-> <<"net::ERR_CONNECTION_RESET">>]
ErrTargetClosed == [type |-> "Error", msg |-> <<"Target closed">>]
ErrTimeoutClosed ==
    [type |-> PlaywrightTimeout,
     msg |-> <<"Timeout 30000ms exceeded.",
               "Target page, context or browser has been closed">>]
EnvErrors == {ErrTimeout, ErrNetwork, ErrTargetClosed, ErrTimeoutClosed}

HotelName == <<"Fairmont", "Royal", "York">>
HotelNames ==
    {HotelName, <<"The", "Drake", "HOTEL">>,
     <<"Fairmont", "Royal", "York", "Hotel">>}

WordsOf(hotel_name) == {hotel_name[k] : k \in DOMAIN hotel_name}

Card(err, words, phrases, prices) ==
    [err |-> err, words |-> words, phrases |-> phrases, prices |-> prices]
Page(locator_err, cards, body_err, body) ==
    [locator_err |-> locator_err, cards |-> cards, body_err |-> body_err,
     body |-> body]
BlankPage == Page(NoError, << >>, NoError, {})

SeqsUpTo(S, n) == UNION {[1..k -> S] : k \in 0..n}

\* The phrases of the readable cards are part of the text of the body.
BodyOf(cards, more) ==
    UNION {cards[i].phrases : i \in {j \in DOMAIN cards : cards[j].err = NoError}}
      \cup more

\* No run: the values of the variables of a run in the stand-alone
\* specifications.
ScrapeIdle ==
    [state |-> "idle", step |-> 0, city |-> 0, hotel_id |-> 0, check_in |-> 0,
     two_night_1 |-> None, calculated_rate_1 |-> None, two_night_2 |-> None,
     result |-> None, exc |-> NoError]

RunIdle ==
    /\ s = ScrapeIdle
    /\ pc = "none"
    /\ cfg = << >>
    /\ settings = [max_retries |-> DefaultMaxRetries]
    /\ city_i = 0 /\ hotel_i = 0 /\ date_i = 0
    /\ request_count = 0 /\ corruption_retry = 0
    /\ browser = 0 /\ context = 0
    /\ all_results = << >> /\ errors = << >>

(***************************************************************************)
(* Specification SpecExtract: extract_rate_from_booking on the pages of    *)
(* InitExtract.                                                            *)
(***************************************************************************)
Amounts == {149, 150, 412, 899, 2500, 6001, 9001}
CardPhraseSets ==
    {{}, {"This property is unavailable"}, {"No availability"}, {"Sold out"}}

\* One card that names the hotel, with every choice of amounts.
OneCardPages(hotel_name) ==
    {Page(NoError, <<c>>, NoError, BodyOf(<<c>>, more)) :
        c \in {Card(NoError, WordsOf(hotel_name), ph, pr) :
                  ph \in CardPhraseSets, pr \in SeqsUpTo(Amounts, MaxPrices)},
        more \in {{}, {"Sold out"}}}

\* Several cards: unreadable, showing one word of the name, its first and
\* last word, the words of another hotel in another case, sold out, priced,
\* priceless, priced out of every window.
FewCards(hotel_name) ==
    { Card(ErrTargetClosed, WordsOf(hotel_name), {}, <<412, 412>>),
      Card(NoError, {hotel_name[2]}, {}, <<899>>),
      Card(NoError, {hotel_name[1], hotel_name[Len(hotel_name)]}, {}, <<899>>),
      Card(NoError, {"Drake", "Hotel"}, {}, <<600, 600>>),
      Card(NoError, WordsOf(hotel_name), {"No availability"}, <<412, 412>>),
      Card(NoError, WordsOf(hotel_name), {}, <<412, 412, 899>>),
      Card(NoError, WordsOf(hotel_name), {}, << >>),
      Card(NoError, WordsOf(hotel_name), {}, <<149>>) }

FewCardPages(hotel_name) ==
    {Page(le, cs, be, BodyOf(cs, more)) :
        le \in {NoError, ErrTimeout},
        cs \in SeqsUpTo(FewCards(hotel_name), MaxCards),
        be \in {NoError, ErrTargetClosed, ErrTimeout},
        more \in {{}, {"Sold out"}}}

\* The card of the hotel after k cards that are unreadable or of another
\* hotel, k around the number of cards line 327 scans.
Fillers(k) ==
    [i \in 1..k |-> IF i % 2 = 0 THEN Card(ErrTargetClosed, {"Inn"}, {}, <<899>>)
                    ELSE Card(NoError, {"Royal", "Inn"}, {}, <<899>>)]

LongPages(hotel_name) ==
    {Page(NoError,
          Fillers(k) \o <<Card(NoError, WordsOf(hotel_name), {}, <<412, 412>>)>>,
          NoError, {}) : k \in {CardsScanned - 1, CardsScanned}}

XIdle == [page |-> BlankPage, hotel_name |-> << >>, nights |-> 0, result |-> None]

ExtractPages(hotel_name) ==
    IF hotel_name = HotelName
    THEN OneCardPages(hotel_name) \cup FewCardPages(hotel_name)
           \cup LongPages(hotel_name)
    ELSE FewCardPages(hotel_name) \cup LongPages(hotel_name)

InitExtract ==
    /\ \E h \in HotelNames, n \in 1..MaxNights :
          \E p \in ExtractPages(h) :
             x = [page |-> p, hotel_name |-> h, nights |-> n, result |-> None]
    /\ f = FrameIdle
    /\ RunIdle

Extract ==
    /\ x.nights > 0
    /\ x.result = None
    /\ x' = [x EXCEPT !.result =
                Some(extract_rate_from_booking(x.page, x.hotel_name, x.nights))]
    /\ UNCHANGED <<f, run_vars>>

NextExtract == Extract

SpecExtract == InitExtract /\ [][NextExtract]_vars

(***************************************************************************)
(* Specification SpecFetch: one call of fetch_booking_rate, for every      *)
(* max_retries up to MaxRetriesArg and stays of one and two nights.        *)
(***************************************************************************)
FetchPages ==
    { Page(NoError, <<Card(NoError, WordsOf(HotelName), {}, <<412, 412, 899>>)>>,
           NoError, {}),
      Page(NoError,
           <<Card(NoError, WordsOf(HotelName), {"No availability"}, <<412>>)>>,
           NoError, {"No availability"}),
      Page(NoError, <<Card(NoError, {"Drake", "Hotel"}, {}, <<412>>)>>,
           NoError, {}),
      Page(NoError, << >>, NoError, {"Sold out"}),
      Page(NoError, <<Card(NoError, WordsOf(HotelName), {}, <<149>>)>>,
           NoError, {}),
      Page(NoError, <<Card(ErrTargetClosed, WordsOf(HotelName), {}, <<412>>)>>,
           NoError, {}),
      Page(NoError, << >>, ErrTargetClosed, {}),
      Page(NoError, << >>, ErrTimeoutClosed, {}),
      Page(NoError, << >>, ErrNetwork, {}),
      Page(ErrTimeout, << >>, NoError, {}),
      Page(ErrTimeout, << >>, ErrTargetClosed, {}) }

Outcome(goto_err, wait_err, page) ==
    [goto_err |-> goto_err, wait_err |-> wait_err, page |-> page]

FetchOutcomes ==
    {Outcome(e, NoError, BlankPage) : e \in EnvErrors}
    \cup {Outcome(NoError, e, BlankPage) : e \in EnvErrors}
    \cup {Outcome(NoError, NoError, p) : p \in FetchPages}

InitFetch ==
    /\ x = XIdle
    /\ RunIdle
    /\ \E n \in 1..2, m \in 0..MaxRetriesArg : f = fetch_enter(0, n, m)

NextFetch ==
    \/ \E o \in FetchOutcomes : FetchAttempt(o, HotelName)
    \/ FetchExhausted

SpecFetch == InitFetch /\ [][NextFetch]_vars

(***************************************************************************)
(* calculate_rate_from_multi_night.                                        *)
(***************************************************************************)
\* The truth of an optional integer in an `if`: None and 0 are false.
Truthy(opt) == opt # None /\ opt[1] # 0

Abs(n) == IF n < 0 THEN -n ELSE n

\* lines 589-591: int(round((a + b) / 2)); round() takes a half to the even
\* neighbour.
round_avg(a, b) ==
    LET lo == (a + b) \div 2
    IN  IF (a + b) % 2 = 0 THEN lo ELSE IF lo % 2 = 0 THEN lo ELSE lo + 1

\* Variant: the subtraction the other way round.
calculated_rate_reversed(two_night, one_night) ==
    IF Truthy(two_night.rate) /\ Truthy(one_night.rate)
    THEN Some(one_night.rate[1] - two_night.rate[1])
    ELSE None

\* lines 549-552 and 573-576
calculated_rate(two_night, one_night) ==
    IF Truthy(two_night.rate) /\ Truthy(one_night.rate)
    THEN Some(two_night.rate[1] - one_night.rate[1])
    ELSE None

\* Variant: the last branch hands on what method 1 calculated.
final_rate_keeps_first(calculated_rate_1, calculated_rate_2) ==
    IF Truthy(calculated_rate_1) /\ Truthy(calculated_rate_2)
    THEN LET diff == Abs(calculated_rate_1[1] - calculated_rate_2[1])
         IN  [rate |-> Some(round_avg(calculated_rate_1[1], calculated_rate_2[1])),
              availability_status |-> "available_calculated",
              error |-> IF diff <= 50 THEN None
                        ELSE <<"Calculation methods differ by $", NumStr(diff)>>,
              diagnostics |-> None]
    ELSE IF Truthy(calculated_rate_1)
    THEN [rate |-> calculated_rate_1,
          availability_status |-> "available_calculated",
          error |-> None, diagnostics |-> None]
    ELSE IF Truthy(calculated_rate_2)
    THEN [rate |-> calculated_rate_2,
          availability_status |-> "available_calculated",
          error |-> None, diagnostics |-> None]
    ELSE [rate |-> calculated_rate_1, availability_status |-> "not_found",
          error |-> <<"Could not calculate rate from multi-night bookings">>,
          diagnostics |-> None]

\* lines 585-613
final_rate(calculated_rate_1, calculated_rate_2) ==
    IF Truthy(calculated_rate_1) /\ Truthy(calculated_rate_2)
    THEN LET diff == Abs(calculated_rate_1[1] - calculated_rate_2[1])
         IN  [rate |-> Some(round_avg(calculated_rate_1[1], calculated_rate_2[1])),
              availability_status |-> "available_calculated",
              error |-> IF diff <= 50 THEN None
                        ELSE <<"Calculation methods differ by $", NumStr(diff)>>,
              diagnostics |-> None]
    ELSE IF Truthy(calculated_rate_1)
    THEN [rate |-> calculated_rate_1,
          availability_status |-> "available_calculated",
          error |-> None, diagnostics |-> None]
    ELSE IF Truthy(calculated_rate_2)
    THEN [rate |-> calculated_rate_2,
          availability_status |-> "available_calculated",
          error |-> None, diagnostics |-> None]
    ELSE [rate |-> None, availability_status |-> "not_found",
          error |-> <<"Could not calculate rate from multi-night bookings">>,
          diagnostics |-> None]

\* Variant: the second stay of two nights is one of three.
fetch_range_long(step, target_date) ==
    CASE step = 1 -> <<target_date, target_date + 1>>
      [] step = 2 -> <<target_date - 1, target_date + 1>>
      [] step = 3 -> <<target_date - 1, target_date>>
      [] step = 4 -> <<target_date, target_date + 3>>
      [] step = 5 -> <<target_date + 1, target_date + 2>>

\* lines 521-524, 542, 546, 566, 570: the stay of the fetch of each step of
\* a scrape_hotel_rate call; step 1 is the direct fetch of line 670.
fetch_range(step, target_date) ==
    CASE step = 1 -> <<target_date, target_date + 1>>
      [] step = 2 -> <<target_date - 1, target_date + 1>>
      [] step = 3 -> <<target_date - 1, target_date>>
      [] step = 4 -> <<target_date, target_date + 2>>
      [] step = 5 -> <<target_date + 1, target_date + 2>>

\* Variant: the callers pass the max_retries of the settings on.
fetch_call_configured(step, target_date) ==
    fetch_enter(fetch_range(step, target_date)[1],
                fetch_range(step, target_date)[2], settings.max_retries)

\* The fetch_booking_rate call of a step: callers never pass max_retries.
fetch_call(step, target_date) ==
    fetch_enter(fetch_range(step, target_date)[1],
                fetch_range(step, target_date)[2], DefaultMaxRetries)

(***************************************************************************)
(* scrape_hotel_rate.                                                      *)
(***************************************************************************)
\* Variant: the rate of rate_info is not taken over.
scrape_result_rateless(fr, rate_info) ==
    [city |-> fr.city, hotel_id |-> fr.hotel_id, check_in_date |-> fr.check_in,
     rate |-> None,
     availability_status |-> rate_info.availability_status,
     error |-> rate_info.error, diagnostics |-> rate_info.diagnostics]

\* lines 645-666 and 679: the result dict after result.update(rate_info)
scrape_result(fr, rate_info) ==
    [city |-> fr.city, hotel_id |-> fr.hotel_id, check_in_date |-> fr.check_in,
     rate |-> rate_info.rate,
     availability_status |-> rate_info.availability_status,
     error |-> rate_info.error, diagnostics |-> rate_info.diagnostics]

\* Variant: the handlers note the error and leave the status as it was.
scrape_except_statusless(fr, e) ==
    [city |-> fr.city, hotel_id |-> fr.hotel_id, check_in_date |-> fr.check_in,
     rate |-> None, availability_status |-> "unknown",
     error |-> IF IsPlaywrightTimeout(e) THEN <<"Navigation timeout">> ELSE e.msg,
     diagnostics |-> None]

\* lines 681-686: the result dict after one of the handlers
scrape_except(fr, e) ==
    [city |-> fr.city, hotel_id |-> fr.hotel_id, check_in_date |-> fr.check_in,
     rate |-> None, availability_status |-> "error",
     error |-> IF IsPlaywrightTimeout(e) THEN <<"Navigation timeout">> ELSE e.msg,
     diagnostics |-> None]

\* Variant: the solver is tried only for a card without a rate.
needs_multi_night_rateless(rate_info) ==
    /\ rate_info.availability_status = "available"
    /\ rate_info.rate = None

\* Variant: the solver is tried for a hotel that was not found as well.
needs_multi_night_eager(rate_info) ==
    \/ rate_info.availability_status \in {"sold_out", "not_found"}
    \/ /\ rate_info.availability_status = "available"
       /\ rate_info.rate = None

\* lines 672-674
needs_multi_night(rate_info) ==
    \/ rate_info.availability_status = "sold_out"
    \/ /\ rate_info.availability_status = "available"
       /\ rate_info.rate = None

\* lines 634-670: the call, up to the call of the direct fetch
scrape_enter(city, hotel_id, check_in) ==
    [ScrapeIdle EXCEPT !.state = "running", !.step = 1, !.city = city,
                       !.hotel_id = hotel_id, !.check_in = check_in]

\* lines 670-679: the direct fetch has returned
ScrapeDirect ==
    /\ pc = "scrape" /\ s.state = "running" /\ s.step = 1
    /\ f.state = "returned"
    /\ IF needs_multi_night(f.result[1])
       THEN /\ s' = [s EXCEPT !.step = 2]
            /\ f' = fetch_call(2, s.check_in)
       ELSE /\ s' = [s EXCEPT !.state = "returned",
                              !.result = Some(scrape_result(s, f.result[1]))]
            /\ f' = FrameIdle
    /\ UNCHANGED <<x, pc, cfg, settings, city_i, hotel_i, date_i, request_count,
                   corruption_retry, browser, context, all_results, errors>>

\* lines 542-571: one of the first three fetches of the solver has returned.
\* A local that is not read again is dropped.
SolverFetched ==
    /\ pc = "scrape" /\ s.state = "running" /\ s.step \in {2, 3, 4}
    /\ f.state = "returned"
    /\ s' = CASE s.step = 2 -> [s EXCEPT !.step = 3, !.two_night_1 = f.result]
              [] s.step = 3 ->
                   [s EXCEPT !.step = 4, !.two_night_1 = None,
                             !.calculated_rate_1 =
                                 calculated_rate(s.two_night_1[1], f.result[1])]
              [] s.step = 4 -> [s EXCEPT !.step = 5, !.two_night_2 = f.result]
    /\ f' = fetch_call(s.step + 1, s.check_in)
    /\ UNCHANGED <<x, pc, cfg, settings, city_i, hotel_i, date_i, request_count,
                   corruption_retry, browser, context, all_results, errors>>

\* lines 570-613 and 677-679: the last fetch of the solver has returned
SolverDone ==
    /\ pc = "scrape" /\ s.state = "running" /\ s.step = 5
    /\ f.state = "returned"
    /\ LET calculated_rate_2 == calculated_rate(s.two_night_2[1], f.result[1])
           rate_info == final_rate(s.calculated_rate_1, calculated_rate_2)
       IN  s' = [s EXCEPT !.state = "returned", !.two_night_2 = None,
                          !.calculated_rate_1 = None,
                          !.result = Some(scrape_result(s, rate_info))]
    /\ f' = FrameIdle
    /\ UNCHANGED <<x, pc, cfg, settings, city_i, hotel_i, date_i, request_count,
                   corruption_retry, browser, context, all_results, errors>>

\* lines 681-688: a fetch of the call, direct or of the solver, has raised
ScrapeExcept ==
    /\ pc = "scrape" /\ s.state = "running"
    /\ f.state = "raised"
    /\ s' = [s EXCEPT !.state = "returned", !.two_night_1 = None,
                      !.two_night_2 = None, !.calculated_rate_1 = None,
                      !.result = Some(scrape_except(s, f.exc))]
    /\ f' = FrameIdle
    /\ UNCHANGED <<x, pc, cfg, settings, city_i, hotel_i, date_i, request_count,
                   corruption_retry, browser, context, all_results, errors>>

(***************************************************************************)
(* run_scraper.                                                            *)
(* A city of the configuration is [hotels, dates]: the number of its       *)
(* hotels and the dates generate_dates gives for its date range.           *)
(* launch_browser is taken to succeed.                                     *)
(***************************************************************************)
REQUESTS_BEFORE_CONTEXT_REFRESH == 3
max_corruption_retries == 2

Dates(city) == cfg[city].dates

\* Variant: the error of a result that has a rate is not listed.
record_result_rateless(result) ==
    /\ all_results' = Append(all_results, result)
    /\ errors' = IF result.error # None /\ result.rate = None
                 THEN Append(errors, [hotel |-> <<result.city, result.hotel_id>>,
                                      date |-> result.check_in_date,
                                      error |-> result.error])
                 ELSE errors

\* Variant: a result with an error goes to the list of errors only.
record_result_sparing(result) ==
    /\ all_results' = IF result.error # None THEN all_results
                      ELSE Append(all_results, result)
    /\ errors' = IF result.error # None
                 THEN Append(errors, [hotel |-> <<result.city, result.hotel_id>>,
                                      date |-> result.check_in_date,
                                      error |-> result.error])
                 ELSE errors

\* lines 938-945
record_result(result) ==
    /\ all_results' = Append(all_results, result)
    /\ errors' = IF result.error # None
                 THEN Append(errors, [hotel |-> <<result.city, result.hotel_id>>,
                                      date |-> result.check_in_date,
                                      error |-> result.error])
                 ELSE errors

\* lines 916-936
corruption_persists(fr, e) ==
    [city |-> fr.city, hotel_id |-> fr.hotel_id, check_in_date |-> fr.check_in,
     rate |-> None, availability_status |-> "error", error |-> e.msg,
     diagnostics |-> None]

\* Variant: every refresh launches another browser.
refresh_relaunching(env) ==
    IF env.new_context = "ok"
    THEN [browser |-> browser + 1, opened |-> TRUE]
    ELSE [browser |-> browser + 2, opened |-> env.again = "ok"]

\* lines 823-849 and 873-886: the browser and whether a context could be
\* opened, for what the browser does during the refresh:
\*   env.is_connected  "true", "false" or "raises" (browser.is_connected())
\*   env.new_context   "ok" or "raises" (the first create_fresh_context)
\*   env.again         "ok" or "raises" (the one after the relaunch)
\* context.close() may raise as well (env.close): line 875 swallows it.
refresh(env) ==
    LET checked == IF env.is_connected = "true" THEN browser ELSE browser + 1
    IN  IF env.new_context = "ok"
        THEN [browser |-> checked, opened |-> TRUE]
        ELSE [browser |-> checked + 1, opened |-> env.again = "ok"]

RefreshEnvs ==
    [close : {"ok", "raises"}, is_connected : {"true", "false", "raises"},
     new_context : {"ok", "raises"}, again : {"ok", "raises"}]

\* lines 866-887: the next hotel of the city; every third one refreshes the
\* context first.
HotelBatch(env) ==
    /\ pc = "hotel"
    /\ city_i <= Len(cfg) /\ hotel_i <= cfg[city_i].hotels
    /\ request_count' = request_count + 1
    /\ IF request_count' % REQUESTS_BEFORE_CONTEXT_REFRESH = 0
       THEN /\ browser' = refresh(env).browser
            /\ IF refresh(env).opened
               THEN context' = context + 1 /\ pc' = "date"
               ELSE context' = context /\ pc' = "aborted"
       ELSE /\ env = [close |-> "ok", is_connected |-> "true",
                      new_context |-> "ok", again |-> "ok"]
            /\ UNCHANGED <<browser, context>>
            /\ pc' = "date"
    /\ date_i' = 1
    /\ UNCHANGED <<x, f, s, cfg, settings, city_i, hotel_i, corruption_retry,
                   all_results, errors>>

\* line 866: the hotels of the city are done
NextCity ==
    /\ pc = "hotel"
    /\ city_i <= Len(cfg) /\ hotel_i > cfg[city_i].hotels
    /\ city_i' = city_i + 1 /\ hotel_i' = 1
    /\ UNCHANGED <<x, f, s, pc, cfg, settings, date_i, request_count, corruption_retry,
                   browser, context, all_results, errors>>

\* line 855: the cities are done
CitiesDone ==
    /\ pc = "hotel" /\ city_i > Len(cfg)
    /\ pc' = "cleanup"
    /\ UNCHANGED <<x, f, s, cfg, settings, city_i, hotel_i, date_i, request_count,
                   corruption_retry, browser, context, all_results, errors>>

\* line 889: the dates of the hotel are done
DatesDone ==
    /\ pc = "date" /\ date_i > Len(Dates(city_i))
    /\ hotel_i' = hotel_i + 1 /\ pc' = "hotel"
    /\ UNCHANGED <<x, f, s, cfg, settings, city_i, date_i, request_count,
                   corruption_retry, browser, context, all_results, errors>>

\* lines 889-894: the next date; scrape_hotel_rate is called and calls the
\* direct fetch
ScrapeCall ==
    /\ pc = "date" /\ date_i <= Len(Dates(city_i))
    /\ corruption_retry' = 0
    /\ s' = scrape_enter(city_i, hotel_i, Dates(city_i)[date_i])
    /\ f' = fetch_call(1, Dates(city_i)[date_i])
    /\ pc' = "scrape"
    /\ UNCHANGED <<x, cfg, settings, city_i, hotel_i, date_i, request_count, browser,
                   context, all_results, errors>>

\* lines 895-957: scrape_hotel_rate has returned or raised
\* BrowserCorruptionError; the relaunch of lines 909-910 is taken to succeed.
RunRecord ==
    /\ pc = "scrape" /\ s.state \in {"returned", "raised"}
    /\ IF s.state = "raised" /\ corruption_retry < max_corruption_retries
       THEN /\ browser' = browser + 1
            /\ context' = context + 1
            /\ corruption_retry' = corruption_retry + 1
            /\ s' = scrape_enter(s.city, s.hotel_id, s.check_in)
            /\ f' = fetch_call(1, s.check_in)
            /\ UNCHANGED <<pc, date_i, all_results, errors>>
       ELSE /\ record_result(IF s.state = "raised"
                             THEN corruption_persists(s, s.exc)
                             ELSE s.result[1])
            /\ s' = ScrapeIdle
            /\ date_i' = date_i + 1
            /\ pc' = "date"
            /\ UNCHANGED <<f, corruption_retry, browser, context>>
    /\ UNCHANGED <<x, cfg, settings, city_i, hotel_i, request_count>>

\* lines 959-965: context.close() is guarded, browser.close() is not
Cleanup(context_close, browser_close) ==
    /\ pc = "cleanup"
    /\ pc' = IF browser_close = "raises" THEN "aborted" ELSE "report"
    /\ UNCHANGED <<x, f, s, cfg, settings, city_i, hotel_i, date_i, request_count,
                   corruption_retry, browser, context, all_results, errors>>

\* lines 967-1018
Report ==
    /\ pc = "report"
    /\ pc' = "done"
    /\ UNCHANGED <<x, f, s, cfg, settings, city_i, hotel_i, date_i, request_count,
                   corruption_retry, browser, context, all_results, errors>>

(***************************************************************************)
(* Specification Spec: a run of run_scraper over every configuration of    *)
(* at most two cities within the bounds.                                   *)
(***************************************************************************)
Batches(c) == IF c = << >> THEN 0
              ELSE IF Len(c) = 1 THEN c[1].hotels ELSE c[1].hotels + c[2].hotels
Requests(c) ==
    IF c = << >> THEN 0
    ELSE IF Len(c) = 1 THEN c[1].hotels * Len(c[1].dates)
    ELSE c[1].hotels * Len(c[1].dates) + c[2].hotels * Len(c[2].dates)

Cities ==
    {[hotels |-> h, dates |-> [k \in 1..n |-> k]] :
        h \in 1..MaxBatches, n \in 0..MaxDates}

RunConfigs ==
    {c \in SeqsUpTo(Cities, 2) :
        Len(c) >= 1 /\ Batches(c) <= MaxBatches /\ Requests(c) <= MaxRequests}

\* lines 758-759: scrape_settings with the max_retries it configures; 3 is
\* also what settings.get gives when the key is absent.
RunSettings == {[max_retries |-> n] : n \in {1, 3, 5}}

RunPages ==
    { Page(NoError, <<Card(NoError, WordsOf(HotelName), {}, <<412, 412, 899>>)>>,
           NoError, {}),
      Page(NoError,
           <<Card(NoError, WordsOf(HotelName), {"No availability"}, <<412>>)>>,
           NoError, {"No availability"}),
      Page(NoError, <<Card(NoError, {"Drake", "Hotel"}, {}, <<412>>)>>,
           NoError, {}) }

RunOutcomes ==
    {Outcome(e, NoError, BlankPage) : e \in {ErrTimeout, ErrTargetClosed}}
    \cup {Outcome(NoError, NoError, p) : p \in RunPages}

Init ==
    /\ x = XIdle
    /\ f = FrameIdle
    /\ s = ScrapeIdle
    /\ cfg \in RunConfigs
    /\ settings \in RunSettings
    /\ pc = "hotel"
    /\ city_i = 1 /\ hotel_i = 1 /\ date_i = 0
    /\ request_count = 0 /\ corruption_retry = 0
    /\ browser = 1 /\ context = 1
    /\ all_results = << >> /\ errors = << >>

Next ==
    \/ \E env \in RefreshEnvs : HotelBatch(env)
    \/ NextCity
    \/ CitiesDone
    \/ DatesDone
    \/ ScrapeCall
    \/ \E o \in RunOutcomes : pc = "scrape" /\ FetchAttempt(o, HotelName)
    \/ pc = "scrape" /\ FetchExhausted
    \/ ScrapeDirect
    \/ SolverFetched
    \/ SolverDone
    \/ ScrapeExcept
    \/ RunRecord
    \/ \E cc, bc \in {"ok", "raises"} : Cleanup(cc, bc)
    \/ Report

Spec == Init /\ [][Next]_vars

(***************************************************************************)
(* Specification SpecSolver: calculate_rate_from_multi_night, from its     *)
(* call at line 677 to the recording of the result of the request, in a    *)
(* run of one city, one hotel and one date whose direct fetch has returned *)
(* sold_out.  Every fetch shows a card of the hotel with one amount, a     *)
(* sold out card, another hotel, or fails.                                 *)
(***************************************************************************)
SolverAmounts == {600, 650, 1260, 1261, 1300}

SolverPages ==
    {Page(NoError, <<Card(NoError, WordsOf(HotelName), {}, <<a>>)>>, NoError, {}) :
        a \in SolverAmounts}
    \cup
    { Page(NoError,
           <<Card(NoError, WordsOf(HotelName), {"No availability"}, <<412>>)>>,
           NoError, {"No availability"}),
      Page(NoError, <<Card(NoError, {"Drake", "Hotel"}, {}, <<412>>)>>,
           NoError, {}) }

SolverOutcomes ==
    {Outcome(e, NoError, BlankPage) : e \in {ErrTimeout, ErrTargetClosed}}
    \cup {Outcome(NoError, NoError, p) : p \in SolverPages}

InitSolver ==
    /\ x = XIdle
    /\ cfg = <<[hotels |-> 1, dates |-> <<1>>]>>
    /\ settings = [max_retries |-> DefaultMaxRetries]
    /\ pc = "scrape"
    /\ city_i = 1 /\ hotel_i = 1 /\ date_i = 1
    /\ request_count = 1 /\ corruption_retry = 0
    /\ browser = 1 /\ context = 1
    /\ all_results = << >> /\ errors = << >>
    /\ s = [scrape_enter(1, 1, 1) EXCEPT !.step = 2]
    /\ f = fetch_call(2, 1)

NextSolver ==
    \/ \E o \in SolverOutcomes : pc = "scrape" /\ FetchAttempt(o, HotelName)
    \/ pc = "scrape" /\ FetchExhausted
    \/ SolverFetched
    \/ SolverDone
    \/ ScrapeExcept
    \/ RunRecord

SpecSolver == InitSolver /\ [][NextSolver]_vars

(***************************************************************************)
(* Specification SpecScrape: one call of scrape_hotel_rate, from its       *)
(* direct fetch to the recording of its result.  The program is            *)
(* sequential: a step that can be taken is taken.                          *)
(***************************************************************************)
ScrapeOutcomes ==
    SolverOutcomes
    \cup {Outcome(NoError, NoError, Page(ErrNetwork, << >>, NoError, {}))}

InitScrape ==
    /\ x = XIdle
    /\ cfg = <<[hotels |-> 1, dates |-> <<1>>]>>
    /\ settings = [max_retries |-> DefaultMaxRetries]
    /\ pc = "scrape"
    /\ city_i = 1 /\ hotel_i = 1 /\ date_i = 1
    /\ request_count = 1 /\ corruption_retry = 0
    /\ browser = 1 /\ context = 1
    /\ all_results = << >> /\ errors = << >>
    /\ s = scrape_enter(1, 1, 1)
    /\ f = fetch_call(1, 1)

NextScrape ==
    \/ \E o \in ScrapeOutcomes : pc = "scrape" /\ FetchAttempt(o, HotelName)
    \/ pc = "scrape" /\ FetchExhausted
    \/ ScrapeDirect
    \/ SolverFetched
    \/ SolverDone
    \/ ScrapeExcept
    \/ RunRecord

SpecScrape == InitScrape /\ [][NextScrape]_vars /\ WF_vars(NextScrape)

(***************************************************************************)
(* Properties of extract_rate_from_booking (SpecExtract).                  *)
(***************************************************************************)
SetMin(S) == CHOOSE m \in S : \A y \in S : m <= y
RangeOf(seq) == {seq[i] : i \in DOMAIN seq}
Occurrences(seq, a) == Cardinality({i \in DOMAIN seq : seq[i] = a})

XDone == x.result # None
XResult == x.result[1]

\* The card of the page that stands for the hotel: the first readable card
\* among the first CardsScanned showing two keywords or more (0: no card).
TargetIndex ==
    IF x.page.locator_err # NoError THEN 0
    ELSE LET C == {i \in 1..Min2(Len(x.page.cards), CardsScanned) :
                     /\ x.page.cards[i].err = NoError
                     /\ matches(x.page.cards[i], x.hotel_name) >= 2}
         IN  IF C = {} THEN 0 ELSE SetMin(C)
TargetCard == x.page.cards[TargetIndex]

\* The phrases lines 338-342 look for in the text of a card.
SoldOutPhrases == {"no availability", "unavailable"}
SaysSoldOut(card) ==
    \E ph \in SoldOutPhrases : TextContains(card.phrases, ph)

\* The sold-out and unavailable phrases the program knows: those of the
\* card and those of the page (lines 276 and 405).
KnownSoldOutPhrases == SoldOutPhrases \cup {"sold out"}
ReadsSoldOut(card) ==
    \E ph \in KnownSoldOutPhrases : TextContains(card.phrases, ph)

InPrimaryWindow(a, n) ==
    IF n = 1 THEN 150 <= a /\ a <= 2500 ELSE 300 * n <= a /\ a <= 3000 * n
PrimaryAmounts(prices, n) == SelectSeq(prices, LAMBDA a : InPrimaryWindow(a, n))
FallbackAmounts(prices, n) == SelectSeq(prices, LAMBDA a : a >= 400 * n)

\* m is a median of the amounts w: an amount of w with at least half of
\* them on either side of it, itself included.
IsMedian(m, w) ==
    /\ m \in RangeOf(w)
    /\ 2 * Cardinality({i \in DOMAIN w : w[i] <= m}) >= Len(w)
    /\ 2 * Cardinality({i \in DOMAIN w : w[i] >= m}) >= Len(w)

\* The rate the disambiguation rule gives among the amounts w of a card
\* showing prices: the smallest recurring one, or else a median.
IsDisambiguated(r, w, prices) ==
    LET recurring == {a \in RangeOf(w) : Occurrences(prices, a) > 1}
    IN  IF recurring # {} THEN r = SetMin(recurring) ELSE IsMedian(r, w)

\* C6, as stated: a matched card whose text holds a sold-out or unavailable
\* phrase, "sold out" included, gives sold_out with no rate, whatever the
\* nights and the amounts it shows.
C6_SoldOutPrecedence ==
    (XDone /\ TargetIndex # 0 /\ ReadsSoldOut(TargetCard))
        => /\ XResult.availability_status = "sold_out"
           /\ XResult.rate = None

\* C7: a rate returned for N nights is an amount of the matched card lying
\* in [150, 2500] for N = 1, in [300N, 3000N] for N > 1, or, when no amount
\* of the card lies in [300N, 3000N], at or above 400N.
C7_PlausibilityWindow ==
    (XDone /\ XResult.rate # None)
        => /\ TargetIndex # 0
           /\ LET a == XResult.rate[1]
                  prices == TargetCard.prices
              IN  /\ a \in RangeOf(prices)
                  /\ \/ InPrimaryWindow(a, x.nights)
                     \/ /\ x.nights > 1
                        /\ PrimaryAmounts(prices, x.nights) = << >>
                        /\ a >= 400 * x.nights

C7_Witness ==
    /\ XDone /\ x.nights = 3 /\ TargetIndex # 0
    /\ RangeOf(TargetCard.prices) = {412, 899, 9001}
    /\ XResult.rate = Some(9001)

\* C8: when an amount of the matched, not sold out card lies in the primary
\* window, the status is available and the rate is the smallest windowed
\* amount occurring more than once in the card, or else a median of the
\* windowed amounts.
C8_PrimaryDisambiguation ==
    (/\ XDone /\ TargetIndex # 0 /\ ~SaysSoldOut(TargetCard)
     /\ PrimaryAmounts(TargetCard.prices, x.nights) # << >>)
        => /\ XResult.availability_status = "available"
           /\ XResult.rate # None
           /\ IsDisambiguated(XResult.rate[1],
                              PrimaryAmounts(TargetCard.prices, x.nights),
                              TargetCard.prices)

C8_Witness ==
    /\ XDone /\ TargetIndex # 0 /\ x.nights = 1
    /\ TargetCard.prices = <<412, 412, 899>>
    /\ TargetCard.phrases = {}
    /\ XResult.rate = Some(412)
    /\ XResult.availability_status = "available"

\* C9, as stated: for N > 1, with no amount in the primary window and some
\* in the fallback tier, the rate is the smallest recurring fallback amount,
\* or else a median of the fallback amounts.
C9_FallbackDisambiguated ==
    (/\ XDone /\ TargetIndex # 0 /\ ~SaysSoldOut(TargetCard)
     /\ x.nights > 1
     /\ PrimaryAmounts(TargetCard.prices, x.nights) = << >>
     /\ FallbackAmounts(TargetCard.prices, x.nights) # << >>)
        => /\ XResult.rate # None
           /\ IsDisambiguated(XResult.rate[1],
                              FallbackAmounts(TargetCard.prices, x.nights),
                              TargetCard.prices)

\* C9, amended: for N > 1, with no amount in the primary window and some
\* in the fallback tier, the status is available and the rate is the
\* smallest fallback amount, recurring or not.
C9_FallbackSmallest ==
    (/\ XDone /\ TargetIndex # 0 /\ ~SaysSoldOut(TargetCard)
     /\ x.nights > 1
     /\ PrimaryAmounts(TargetCard.prices, x.nights) = << >>
     /\ FallbackAmounts(TargetCard.prices, x.nights) # << >>)
        => /\ XResult.availability_status = "available"
           /\ XResult.rate =
                Some(SetMin(RangeOf(FallbackAmounts(TargetCard.prices, x.nights))))

C9_Witness ==
    /\ XDone /\ TargetIndex # 0 /\ x.nights = 2
    /\ TargetCard.prices = <<9001, 9001, 6001>>
    /\ TargetCard.phrases = {}
    /\ XResult.rate = Some(6001)

\* The amounts of the card that pass the plausibility filter for n nights.
Survivors(prices, n) ==
    IF PrimaryAmounts(prices, n) # << >> THEN PrimaryAmounts(prices, n)
    ELSE IF n > 1 THEN FallbackAmounts(prices, n) ELSE << >>

\* C10, as stated: a matched card that is not sold out and has no amount
\* passing the filter gives available with no rate; not_found is given only
\* when no card matched.
C10_PricelessIsAvailable ==
    /\ (/\ XDone /\ TargetIndex # 0 /\ ~SaysSoldOut(TargetCard)
        /\ Survivors(TargetCard.prices, x.nights) = << >>)
          => /\ XResult.availability_status = "available"
             /\ XResult.rate = None
    /\ (XDone /\ XResult.availability_status = "not_found")
          => TargetIndex = 0

(***************************************************************************)
(* Properties of fetch_booking_rate (SpecFetch).                           *)
(***************************************************************************)
FResult == f.result[1]
DefinitiveStatuses == {"available", "sold_out", "not_found"}

\* C2: an attempt that met a failure carrying a corruption signature, of
\* whatever class and at whatever place, ends the call with
\* BrowserCorruptionError: no backoff, no further attempt, no result.
C2_CorruptionNeverRetried ==
    (f.attempt >= 1 /\ f.last.sig # {})
        => /\ f.state = "raised"
           /\ f.exc.type = "BrowserCorruptionError"

\* C4: the call returns at the attempt whose extraction gave a definitive
\* status, with that result; while the call goes on, the attempt before
\* ended in an exception (navigation, wait or extraction error); and the
\* attempts never exceed max_retries.
C4_ReturnAtFirstDefinitive ==
    /\ f.attempt <= f.max_retries
    /\ (f.attempt >= 1 /\ f.last.status \in DefinitiveStatuses)
          => /\ f.state = "returned"
             /\ FResult.availability_status = f.last.status
    /\ (f.attempt >= 1 /\ f.state = "running") => f.last.caught # NoError

C4_Witness ==
    /\ f.state = "returned"
    /\ f.max_retries = 3
    /\ f.attempt = 2
    /\ f.sleeps = <<2>>
    /\ f.last.status = "sold_out"

\* C5: when the last of the max_retries attempts failed and no failure of
\* it carried a corruption signature, the call does not raise and returns
\* status error, no rate, and the message "Failed after <max_retries>
\* attempts: <class>: <message>" of the exception that attempt ended in.
C5_RetriesExhausted ==
    (/\ f.attempt >= 1 /\ f.attempt = f.max_retries
     /\ f.last.caught # NoError /\ f.last.sig = {})
        => /\ f.state \in {"running", "returned"}
           /\ f.exc = NoError
           /\ f.state = "returned" =>
                /\ FResult.availability_status = "error"
                /\ FResult.rate = None
                /\ FResult.error =
                      <<"Failed after ", NumStr(f.max_retries), " attempts: ",
                        f.last.caught.type, ": ">> \o f.last.caught.msg

C5_Witness ==
    /\ f.state = "returned"
    /\ f.max_retries = 3 /\ f.attempt = 3
    /\ f.sleeps = <<2, 4>>
    /\ f.last.caught = ErrTimeout
    /\ FResult.availability_status = "error"
    /\ FResult.error = <<"Failed after ", "3", " attempts: ", "TimeoutError",
                         ": ", "Timeout 30000ms exceeded.">>

(***************************************************************************)
(* Properties of run_scraper (Spec).                                       *)
(***************************************************************************)
\* scrape_hotel_rate is about to return the result of the request
Returning == pc = "scrape" /\ s.state = "returned"

\* The result comes from a fetch that raised BrowserCorruptionError.
FromCorruption(result) ==
    /\ result.error # None
    /\ result.error[1] = "Browser corrupted: "

\* A fetch of the request, the direct one or one of the solver, has raised
\* or has returned the status error.
FetchFailed ==
    /\ pc = "scrape" /\ s.state = "running"
    /\ \/ f.state = "raised"
       \/ /\ f.state = "returned"
          /\ f.result[1].availability_status = "error"

\* A fetch of the request has raised, or the direct fetch has returned the
\* status error.
RequestFailed ==
    /\ pc = "scrape" /\ s.state = "running"
    /\ \/ f.state = "raised"
       \/ /\ s.step = 1 /\ f.state = "returned"
          /\ f.result[1].availability_status = "error"

\* C1: a request whose fetch hit a corruption signature is recovered (the
\* context and the browser closed and relaunched) and retried, at most 2
\* times: the request is given up with the error of the corruption only
\* after the 2 recoveries.
C1_CorruptionRecovered ==
    /\ corruption_retry <= max_corruption_retries
    /\ (Returning /\ FromCorruption(s.result[1]))
          => corruption_retry = max_corruption_retries

NoRateWhenAbsent(result) ==
    result.availability_status \in {"sold_out", "not_found"}
        => result.rate = None

\* C11: in every result of extract_rate_from_booking, fetch_booking_rate,
\* calculate_rate_from_multi_night and scrape_hotel_rate, and in every
\* recorded result, the status sold_out or not_found comes with no rate.
C11_AbsentStatusHasNoRate ==
    /\ x.result # None => NoRateWhenAbsent(x.result[1])
    /\ f.result # None => NoRateWhenAbsent(f.result[1])
    /\ s.result # None => NoRateWhenAbsent(s.result[1])
    /\ \A i \in DOMAIN all_results : NoRateWhenAbsent(all_results[i])

\* Neither method of the solver gave a rate: the request is recorded as
\* not_found with no rate.
C11_Witness ==
    /\ Len(all_results) = 1
    /\ all_results[1].availability_status = "not_found"
    /\ all_results[1].rate = None
    /\ all_results[1].error =
           <<"Could not calculate rate from multi-night bookings">>
    /\ f.state = "idle"

\* A fetch of the solver has ended: step 2 and 3 are the fetches of method
\* A (two nights, then the night before), 4 and 5 those of method B.
SolverFetchEnds(step) ==
    /\ pc = "scrape" /\ s.state = "running" /\ s.step = step
    /\ f.state \in {"returned", "raised"}
MethodAEnds == SolverFetchEnds(3) /\ f.state = "returned"
SolverEnds == SolverFetchEnds(5) /\ f.state = "returned"

\* The value of a method: present when both of its fetches returned a rate.
MethodValue(two_night, one_night) ==
    IF two_night.rate # None /\ one_night.rate # None
    THEN Some(two_night.rate[1] - one_night.rate[1])
    ELSE None

\* calcA and calcB when the last fetch of the solver has returned
CalcA == s.calculated_rate_1
CalcB == MethodValue(s.two_night_2[1], f.result[1])

Distance(a, b) == IF a < b THEN b - a ELSE a - b

\* C12: when both methods yield a value, the result is available_calculated
\* with the midpoint of calcA and calcB rounded to a nearest integer; it
\* carries no error when |calcA - calcB| <= 50 and the discrepancy error
\* when |calcA - calcB| >= 51.
C12_Reconciliation ==
    [][ (SolverEnds /\ CalcA # None /\ CalcB # None) =>
           /\ s'.result[1].availability_status = "available_calculated"
           /\ s'.result[1].rate # None
           /\ Distance(2 * s'.result[1].rate[1], CalcA[1] + CalcB[1]) <= 1
           /\ Distance(CalcA[1], CalcB[1]) <= 50 => s'.result[1].error = None
           /\ Distance(CalcA[1], CalcB[1]) >= 51 => s'.result[1].error # None
      ]_vars

\* C13: when the fetches give calcA = calcB = X, the result is X with the
\* status available_calculated and no error.
C13_Symmetry ==
    [][ (SolverEnds /\ CalcA # None /\ CalcB = CalcA) =>
           /\ s'.result[1].rate = CalcA
           /\ s'.result[1].availability_status = "available_calculated"
           /\ s'.result[1].error = None
      ]_vars

\* C14: a method yields a value exactly when both of its fetches returned
\* a rate; when exactly one method yields a value the result is that value
\* with available_calculated; the result is not_found, with no rate and an
\* error, exactly when no method yields a value.
C14_OneMethodOrNone ==
    [][ /\ MethodAEnds =>
             (s'.calculated_rate_1 # None
                <=> (s.two_night_1[1].rate # None /\ f.result[1].rate # None))
        /\ SolverEnds =>
             /\ (CalcA # None /\ CalcB = None) =>
                   /\ s'.result[1].rate = CalcA
                   /\ s'.result[1].availability_status = "available_calculated"
             /\ (CalcA = None /\ CalcB # None) =>
                   /\ s'.result[1].rate = CalcB
                   /\ s'.result[1].availability_status = "available_calculated"
             /\ s'.result[1].availability_status = "not_found"
                   <=> (CalcA = None /\ CalcB = None)
             /\ (CalcA = None /\ CalcB = None) =>
                   /\ s'.result[1].rate = None
                   /\ s'.result[1].error # None
      ]_vars

\* C15: every recorded rate is a positive integer.
C15_RatePositive ==
    \A i \in DOMAIN all_results :
        all_results[i].rate # None => all_results[i].rate[1] > 0

\* A value the reconciliation of lines 586-604 takes up: present and not 0.
Counts(v) == v # None /\ v[1] # 0

\* The next fetch of the solver is performed.
NextFetchPerformed(step) ==
    /\ s'.state = "running" /\ s'.step = step + 1
    /\ f' = fetch_call(step + 1, s.check_in)

\* The method that has its value alone gives the rate of the result.
LoneMethodContributes ==
    /\ (Counts(CalcA) /\ ~Counts(CalcB)) =>
          /\ s'.result[1].rate = CalcA
          /\ s'.result[1].availability_status = "available_calculated"
    /\ (Counts(CalcB) /\ ~Counts(CalcA)) =>
          /\ s'.result[1].rate = CalcB
          /\ s'.result[1].availability_status = "available_calculated"

\* C16 as stated: however a fetch of the solver ends, by a result of any
\* status or by an exception (corruption), the fetches after it are
\* performed, the value of a method is calculated from its two fetches and
\* the method that alone has a value gives the rate.
C16_ToleratesEveryFailure ==
    [][ /\ \A k \in 2..4 : SolverFetchEnds(k) => NextFetchPerformed(k)
        /\ MethodAEnds =>
             s'.calculated_rate_1 = MethodValue(s.two_night_1[1], f.result[1])
        /\ SolverEnds => LoneMethodContributes
      ]_vars

\* C16 amended: when a fetch of the solver returns, whatever its status
\* (error after the retries included), the fetches after it are performed,
\* the value of a method is calculated from its two fetches and the method
\* that alone has a value gives the rate; when a fetch raises
\* BrowserCorruptionError the solver ends there, no further fetch is made
\* and the request gets the status error.
C16_ToleratesErrorResults ==
    [][ /\ \A k \in 2..4 :
             (SolverFetchEnds(k) /\ f.state = "returned") => NextFetchPerformed(k)
        /\ MethodAEnds =>
             s'.calculated_rate_1 = MethodValue(s.two_night_1[1], f.result[1])
        /\ SolverEnds => LoneMethodContributes
        /\ \A k \in 2..5 :
             (SolverFetchEnds(k) /\ f.state = "raised") =>
                /\ s'.state = "returned" /\ f' = FrameIdle
                /\ s'.result[1].availability_status = "error"
                /\ s'.result[1].rate = None
      ]_vars

\* Method A has its value, the two-night fetch of method B failed at every
\* attempt, and the last fetch was still performed and returned a rate.
C16_Witness ==
    /\ SolverEnds
    /\ Counts(CalcA)
    /\ s.two_night_2[1].availability_status = "error"
    /\ f.result[1].rate # None

(***************************************************************************)
(* Properties of the session and of the results of a run (Spec).           *)
(***************************************************************************)
\* A hotel batch is about to start; request_count batches are completed.
BatchStarts ==
    pc = "hotel" /\ city_i <= Len(cfg) /\ hotel_i <= cfg[city_i].hotels

\* The step closes the context and opens another one, or fails doing so.
ContextReopened == context' # context \/ (pc = "hotel" /\ pc' = "aborted")

\* C17: the context is refreshed exactly when 3 hotel batches have been
\* completed since the previous refresh or since the session was opened,
\* that is when a batch starts after 3, 6, ... completed batches, and at no
\* other time.
C17_RefreshCadence ==
    [][ ContextReopened <=>
          (BatchStarts /\ request_count > 0
             /\ request_count % REQUESTS_BEFORE_CONTEXT_REFRESH = 0) ]_vars

\* C18: whatever happens while the context and the browser are closed at
\* the end of the run, the report is reached with the results and errors
\* collected.
C18_ShutdownBestEffort ==
    [][ pc = "cleanup" =>
          /\ pc' = "report"
          /\ all_results' = all_results /\ errors' = errors ]_vars

\* The (city, hotel, date) triples in the order of the loops of lines
\* 855, 866 and 889.
RECURSIVE HotelsFrom(_, _)
HotelsFrom(c, h) ==
    IF h > cfg[c].hotels THEN << >>
    ELSE [k \in DOMAIN cfg[c].dates |-> <<c, h, cfg[c].dates[k]>>]
           \o HotelsFrom(c, h + 1)
RECURSIVE CitiesFrom(_)
CitiesFrom(c) ==
    IF c > Len(cfg) THEN << >> ELSE HotelsFrom(c, 1) \o CitiesFrom(c + 1)
Iterated == CitiesFrom(1)

Recorded ==
    [i \in DOMAIN all_results |->
        <<all_results[i].city, all_results[i].hotel_id,
          all_results[i].check_in_date>>]

\* C19: all_results holds one result for each triple iterated so far, in
\* the order of the iteration, and for every triple once the loops are
\* done.
C19_OneResultPerRequest ==
    /\ Len(Recorded) <= Len(Iterated)
    /\ Recorded = SubSeq(Iterated, 1, Len(Recorded))
    /\ pc \in {"cleanup", "report", "done"} => Recorded = Iterated

\* A run of three hotel batches and two requests is done: the context was
\* refreshed, the first request failed, and there are two results.
C19_Witness ==
    /\ pc = "done"
    /\ Len(Iterated) = 2 /\ Len(all_results) = 2
    /\ context = 2
    /\ all_results[1].availability_status = "error"
    /\ all_results[2].rate # None

(***************************************************************************)
(* Properties of the matching of the cards (SpecExtract).                  *)
(***************************************************************************)
\* The places of the keywords in the hotel name: the words longer than 3
\* characters, the first 3 of them.
KeyPositions(hotel_name) ==
    {p \in DOMAIN hotel_name :
        /\ WordLen(hotel_name[p]) > 3
        /\ Cardinality({q \in 1..(p - 1) : WordLen(hotel_name[q]) > 3}) < 3}

\* The keywords the text of the card contains, the case left aside.
Hits(card, hotel_name) ==
    {p \in KeyPositions(hotel_name) :
        \E w \in card.words :
            FragmentContains(Lower(w), Lower(hotel_name[p]))}

\* The first card with 2 keywords or more among the first 15 (0: none).
UsedIndex ==
    IF x.page.locator_err # NoError THEN 0
    ELSE LET A == {i \in 1..Len(x.page.cards) :
                     /\ i <= 15
                     /\ x.page.cards[i].err = NoError
                     /\ Cardinality(Hits(x.page.cards[i], x.hotel_name)) >= 2}
         IN  IF A = {} THEN 0 ELSE SetMin(A)

\* C20: the result is that of the first card, among the first 15 in
\* document order, whose text contains at least 2 of the keywords (the
\* first 3 words of the name longer than 3 characters, case left aside):
\* it is the result of the page showing that card alone, or no card when
\* there is no such card.
C20_CardMatching ==
    XDone =>
        XResult = extract_rate_from_booking(
                      [x.page EXCEPT !.cards =
                          IF UsedIndex = 0 THEN << >>
                          ELSE <<x.page.cards[UsedIndex]>>],
                      x.hotel_name, x.nights)

\* The 15th card is the first one of the hotel and gives the rate; a 16th
\* one gives nothing.
C20_Witness ==
    /\ XDone
    /\ Len(x.page.cards) = 15
    /\ UsedIndex = 15
    /\ XResult.rate = Some(412)

(***************************************************************************)
(* Properties of fetch_booking_rate, continued (SpecFetch).                *)
(***************************************************************************)
\* C21: when the extraction of the last attempt failed with an exception
\* and the call returns the status error, the result carries the
\* diagnostics captured for that failure; a result of another status
\* carries none.
C21_DiagnosticsAttached ==
    f.state = "returned" =>
        /\ (FResult.availability_status = "error"
              /\ f.last.caught.type = "Exception")
             => FResult.diagnostics # None
        /\ FResult.availability_status # "error" => FResult.diagnostics = None

\* The pauses 2, 4, ..., 2n.
LinearPauses(n) == [i \in 1..n |-> 2 * i]

\* The attempts of the call that failed and left it going on.
FailedAttempts ==
    IF f.state = "raised" THEN f.attempt - 1
    ELSE IF f.state = "returned" /\ f.last.status # "" THEN f.attempt - 1
    ELSE f.attempt

\* C22: the pauses of the call so far are 2*k after each failed attempt k
\* that has an attempt after it, in this order, for timeouts and other
\* errors alike; nothing is paused after the last attempt, after a result
\* or before BrowserCorruptionError is raised.
C22_LinearBackoff ==
    f.state # "idle" =>
        f.sleeps = LinearPauses(IF FailedAttempts < f.max_retries
                                THEN FailedAttempts
                                ELSE IF f.max_retries = 0 THEN 0
                                ELSE f.max_retries - 1)

\* The third attempt gave the rate, after pauses of 2 and 4 seconds.
C22_Witness ==
    /\ f.state = "returned"
    /\ f.max_retries = 3 /\ f.attempt = 3
    /\ f.last.status = "available"
    /\ f.sleeps = <<2, 4>>

(***************************************************************************)
(* Properties of the session refresh (Spec).                               *)
(***************************************************************************)
\* The batch that starts now refreshes the context first.
RefreshDue ==
    BatchStarts /\ (request_count + 1) % REQUESTS_BEFORE_CONTEXT_REFRESH = 0

\* The browser is found disconnected, or its check fails, or the new
\* context cannot be opened.
Unresponsive(env) ==
    env.is_connected \in {"false", "raises"} \/ env.new_context = "raises"

\* C23: a refresh keeps the browser it has when the browser is connected
\* and the new context opens; it launches another browser only when the
\* browser is found disconnected, when its check fails or when the new
\* context cannot be opened; whether closing the old context fails makes no
\* difference to the refresh.
C23_RefreshKeepsBrowser ==
    [][ RefreshDue =>
          /\ \A env \in RefreshEnvs :
                /\ ~Unresponsive(env) =>
                      refresh(env) = [browser |-> browser, opened |-> TRUE]
                /\ refresh(env).browser # browser <=> Unresponsive(env)
                /\ refresh(env) = refresh([env EXCEPT !.close = "raises"])
          /\ \E env \in RefreshEnvs :
                /\ browser' = refresh(env).browser
                /\ IF refresh(env).opened
                   THEN context' = context + 1 /\ pc' = "date"
                   ELSE context' = context /\ pc' = "aborted" ]_vars

\* The first refresh of a run is done: the context is the second one and
\* the browser is still the first.
C23_Witness ==
    /\ request_count = REQUESTS_BEFORE_CONTEXT_REFRESH
    /\ pc = "date" /\ date_i = 1
    /\ context = 2 /\ browser = 1

(***************************************************************************)
(* Properties of the page-wide outcome of extract_rate_from_booking        *)
(* (SpecExtract).                                                          *)
(***************************************************************************)
\* The text of the body holds a page-wide sold-out phrase.
PageSaysSoldOut ==
    \E ph \in {"no availability", "sold out"} : TextContains(x.page.body, ph)

\* The page with a readable body that says nothing.
SilentBody == [x.page EXCEPT !.body = {}, !.body_err = NoError]

\* C24, as stated: when no card among the first 15 stands for the hotel the
\* result is sold_out if the body holds a page-wide sold-out phrase and
\* not_found with an error otherwise; when a card stands for the hotel the
\* body is not looked at, so that the result is the one of the same page
\* with a silent body.
C24_PageWideOnlyUnmatched ==
    /\ (/\ XDone /\ TargetIndex = 0
        /\ x.page.locator_err = NoError /\ x.page.body_err = NoError)
          => /\ XResult.rate = None
             /\ IF PageSaysSoldOut
                THEN XResult.availability_status = "sold_out"
                ELSE /\ XResult.availability_status = "not_found"
                     /\ XResult.error # None
    /\ (XDone /\ TargetIndex # 0)
          => XResult = extract_rate_from_booking(SilentBody, x.hotel_name,
                                                 x.nights)

(***************************************************************************)
(* Properties of scrape_hotel_rate within a run (Spec).                    *)
(***************************************************************************)
\* The direct single-night fetch of the call has returned its result.
DirectReturned ==
    pc = "scrape" /\ s.state = "running" /\ s.step = 1 /\ f.state = "returned"

\* The result of the fetch says the single night cannot be booked.
SingleNightBlocked ==
    \/ FResult.availability_status = "sold_out"
    \/ FResult.availability_status = "available" /\ FResult.rate = None

\* C25: after the direct fetch has returned, the first fetch of the solver
\* is issued if and only if the result is sold_out, or available with no
\* rate; otherwise no fetch is issued, the call returns the rate, the status
\* and the error of the direct result, and this is what the run records.
C25_SolverIffBlocked ==
    [][ /\ DirectReturned =>
              IF SingleNightBlocked
              THEN /\ s'.state = "running" /\ s'.step = 2
                   /\ f'.state = "running" /\ f'.attempt = 0
                   /\ <<f'.check_in, f'.check_out>> =
                          <<s.check_in - 1, s.check_in + 1>>
                   /\ all_results' = all_results
              ELSE /\ s'.state = "returned" /\ s'.step = 1
                   /\ f'.state = "idle"
                   /\ s'.result[1].rate = FResult.rate
                   /\ s'.result[1].availability_status =
                          FResult.availability_status
                   /\ s'.result[1].error = FResult.error
        /\ (pc = "scrape" /\ s.state = "returned")
              => all_results' = Append(all_results, s.result[1]) ]_vars

\* The first request was recorded as not_found from its direct fetch and
\* the second one has entered the solver.
C25_Witness ==
    /\ Len(all_results) = 1
    /\ all_results[1].availability_status = "not_found"
    /\ pc = "scrape" /\ s.state = "running" /\ s.step = 2 /\ f.attempt = 0

\* The statuses a recorded result may have.
RecordedStatuses == {"available", "available_calculated", "not_found", "error"}

\* C26: every result of all_results has one of the statuses available,
\* available_calculated, not_found and error: neither the initial unknown
\* nor sold_out is ever recorded.
C26_RecordedStatuses ==
    \A i \in DOMAIN all_results :
        all_results[i].availability_status \in RecordedStatuses

\* A sold-out single night was replaced by the rate the solver calculated,
\* and a request that failed was recorded after it.
C26_Witness ==
    /\ Len(all_results) = 2
    /\ all_results[1].availability_status = "available_calculated"
    /\ all_results[2].availability_status = "error"

(***************************************************************************)
(* Properties of one scrape_hotel_rate call (SpecScrape).                  *)
(***************************************************************************)
\* The call is under way.
ScrapeRunning == pc = "scrape" /\ s.state = "running"

\* The stays of the fetches of a call for the date T, in their order.
StaysInOrder(T) ==
    << <<T, T + 1>>, <<T - 1, T + 1>>, <<T - 1, T>>, <<T, T + 2>>,
       <<T + 1, T + 2>> >>

\* C28: the fetches of a call for the date T are the first one or, when no
\* BrowserCorruptionError is raised, all five of [T,T+1), [T-1,T+1),
\* [T-1,T), [T,T+2), [T+1,T+2), in this order; each is for 1 or 2 nights
\* and navigates at most 3 times, so that the call navigates at most 15
\* times; and the call returns.
C28_BoundedFetches ==
    /\ [](ScrapeRunning =>
            /\ s.step \in 1..5
            /\ f.state # "idle"
            /\ <<f.check_in, f.check_out>> = StaysInOrder(s.check_in)[s.step]
            /\ f.check_out - f.check_in \in {1, 2}
            /\ f.attempt <= 3
            /\ 3 * (s.step - 1) + f.attempt <= 15)
    /\ [][ ScrapeRunning =>
             /\ s'.step \in {s.step, s.step + 1}
             /\ (s'.step = s.step + 1 => f.state = "returned")
             /\ (s'.state = "returned" /\ f.state = "returned")
                   => s.step \in {1, 5} ]_vars
    /\ (ScrapeRunning ~> (s.state = "returned"))

\* The call has returned the rate calculated from its five fetches.
C28_Witness ==
    /\ pc = "scrape" /\ s.state = "returned" /\ s.step = 5
    /\ s.result[1].availability_status = "available_calculated"
    /\ s.result[1].error = None

\* The result has a rate exactly when its status says a rate was found.
RateIffAvailable(r) ==
    r.rate # None <=>
        r.availability_status \in {"available", "available_calculated"}

\* C27: every result of extract_rate_from_booking, of fetch_booking_rate,
\* of calculate_rate_from_multi_night and of scrape_hotel_rate has a rate
\* if and only if its status is available or available_calculated.
C27_RateIffAvailable ==
    /\ \A o \in ScrapeOutcomes : \A n \in {1, 2} :
          RateIffAvailable(extract_rate_from_booking(o.page, HotelName, n))
    /\ x.result # None => RateIffAvailable(x.result[1])
    /\ f.result # None => RateIffAvailable(f.result[1])
    /\ s.two_night_1 # None => RateIffAvailable(s.two_night_1[1])
    /\ s.two_night_2 # None => RateIffAvailable(s.two_night_2[1])
    /\ s.result # None => RateIffAvailable(s.result[1])
    /\ \A i \in DOMAIN all_results : RateIffAvailable(all_results[i])

\* The two methods of the solver differed: the recorded result has a rate,
\* the status available_calculated and an error text.
C27_Witness ==
    /\ Len(all_results) = 1
    /\ all_results[1].availability_status = "available_calculated"
    /\ all_results[1].rate # None
    /\ all_results[1].error # None

(***************************************************************************)
(* Properties of the midpoint of the solver (SpecSolver).                  *)
(***************************************************************************)
\* C29, as stated: when both methods yield a value the result is
\* available_calculated with the midpoint of calcA and calcB, exactly when
\* calcA + calcB is even, and the even one of the two integers next to it
\* when calcA + calcB is odd.
C29_HalfToEven ==
    [][ (SolverEnds /\ CalcA # None /\ CalcB # None) =>
           /\ s'.result[1].availability_status = "available_calculated"
           /\ s'.result[1].rate # None
           /\ LET sum == CalcA[1] + CalcB[1]
                  r == s'.result[1].rate[1]
              IN  IF sum % 2 = 0 THEN 2 * r = sum
                  ELSE r % 2 = 0 /\ Distance(2 * r, sum) = 1
      ]_vars

(***************************************************************************)
(* Properties of the median of extract_rate_from_booking (SpecExtract).    *)
(***************************************************************************)
\* The amounts of the card standing for the hotel that lie in the window.
Windowed == PrimaryAmounts(TargetCard.prices, x.nights)

\* C30: when the card shows k amounts in the window and none of them
\* recurs, the rate is the one with floor(k/2) of them below it: the median
\* for odd k, the upper of the two middle ones for even k.
C30_UpperMedian ==
    (/\ XDone /\ TargetIndex # 0 /\ ~SaysSoldOut(TargetCard)
     /\ Windowed # << >>
     /\ \A a \in RangeOf(Windowed) : Occurrences(TargetCard.prices, a) = 1)
        => /\ XResult.availability_status = "available"
           /\ XResult.rate # None
           /\ XResult.rate[1] \in RangeOf(Windowed)
           /\ Cardinality({i \in DOMAIN Windowed :
                              Windowed[i] < XResult.rate[1]})
                 = Len(Windowed) \div 2

\* The card shows two different amounts in the window, the larger first:
\* the rate is the larger.
C30_Witness ==
    /\ XDone /\ TargetIndex # 0 /\ ~SaysSoldOut(TargetCard)
    /\ Len(Windowed) = 2 /\ Windowed[1] > Windowed[2]
    /\ XResult.rate = Some(Windowed[1])

(***************************************************************************)
(* Properties of the settings and of the error list of a run (Spec).       *)
(***************************************************************************)
\* C31: every fetch of a run, the direct one and those of the solver, is
\* entered with max_retries 3 and makes at most 3 attempts, whatever
\* max_retries the settings configure.
C31_ConfiguredRetriesUnused ==
    (pc = "scrape" /\ f.state # "idle")
        => /\ f.max_retries = 3
           /\ f.attempt <= 3
           /\ (f.state = "running" /\ f.attempt < 3) => more_attempts(f)

\* The settings configure 5 attempts and a fetch of the solver has given up
\* after its third.
C31_Witness ==
    /\ settings.max_retries = 5
    /\ pc = "scrape" /\ s.state = "running" /\ s.step >= 2
    /\ f.state = "returned" /\ f.attempt = 3
    /\ FResult.availability_status = "error"

\* The recorded results that carry an error, in their order.
WithError == SelectSeq(all_results, LAMBDA r : r.error # None)

\* C32: the error list has one entry for each recorded result whose error
\* field is not empty, in the order of the results, and none for the
\* others; every not_found result has an error and so an entry, as has an
\* available_calculated result with the note of a discrepancy; the error
\* list is never longer than the list of results.
C32_ErrorListIffError ==
    /\ Len(errors) = Len(WithError)
    /\ \A k \in DOMAIN errors :
          /\ errors[k].error = WithError[k].error
          /\ errors[k].date = WithError[k].check_in_date
          /\ errors[k].hotel = <<WithError[k].city, WithError[k].hotel_id>>
    /\ \A i \in DOMAIN all_results :
          all_results[i].availability_status = "not_found"
              => all_results[i].error # None
    /\ Len(errors) <= Len(all_results)

\* The result recorded has a calculated rate and the note of a discrepancy,
\* and the error list holds this note.
C32_Witness ==
    /\ Len(all_results) = 1 /\ Len(errors) = 1
    /\ all_results[1].availability_status = "available_calculated"
    /\ all_results[1].rate # None
    /\ errors[1].error = all_results[1].error

====
